---- MODULE Spec2Model ----
(***************************************************************************)
(* The UDP discovery tools of cortexOS: the multicast test sender           *)
(* (tools/test_sender.py), the broadcast listener                           *)
(* (tools/broadcast_listener.py) and the multicast discovery listener       *)
(* (tools/discovery_listener.py), with the network between them.            *)
(*                                                                          *)
(* Datagrams are sequences of bytes (0..255).  A Python str is a sequence   *)
(* of code points.  A JSON value is a record [t |-> tag, v |-> content]:    *)
(*   "int" (v an integer), "bool" (v a BOOLEAN), "null" (v = 0),            *)
(*   "str" (v a sequence of code points), "list" (v a sequence of values),  *)
(*   "dict" (v a sequence of <<key, value>> pairs in insertion order, the   *)
(*   keys pairwise distinct, as a Python dict keeps them).                  *)
(*                                                                          *)
(* json.loads and json.dumps are modelled on the JSON this traffic uses:    *)
(* objects, arrays, strings, integers, true, false and null.  Floats, the   *)
(* NaN/Infinity literals and nesting beyond the interpreter's recursion     *)
(* limit are outside the modelled inputs.                                   *)
(*                                                                          *)
(* The module holds four specifications over one set of variables:          *)
(*   Spec         a listener and the traffic arriving at its socket;        *)
(*   SpecNetwork  the test sender, node "A", the network and a listener;    *)
(*   SpecCodec    an announcement payload through json.dumps, encode,       *)
(*                decode and json.loads;                                    *)
(*   SpecIssues   main of the issue creator (tools/create-issues.py).       *)
(* Each leaves the variables of the other programs at their idle values.    *)
(***************************************************************************)
EXTENDS Integers, Sequences, FiniteSets, Bags, TLC

(***************************************************************************)
(* Characters.  Ascii[i] is the printable character with code 31 + i; the   *)
(* grave accent (code 96), which a TLA+ string cannot hold, is spelled out. *)
(***************************************************************************)
Ascii ==
  << " ", "!", "\"", "#", "$", "%", "&", "'", "(", ")", "*", "+", ",", "-",
     ".", "/", "0", "1", "2", "3", "4", "5", "6", "7", "8", "9", ":", ";",
     "<", "=", ">", "?", "@", "A", "B", "C", "D", "E", "F", "G", "H", "I",
     "J", "K", "L", "M", "N", "O", "P", "Q", "R", "S", "T", "U", "V", "W",
     "X", "Y", "Z", "[", "\\", "]", "^", "_", "grave", "a", "b", "c", "d", "e",
     "f", "g", "h", "i", "j", "k", "l", "m", "n", "o", "p", "q", "r", "s",
     "t", "u", "v", "w", "x", "y", "z", "{", "|", "}", "~" >>

\* ord(c) of a printable ASCII character
Ord(c) == 31 + (CHOOSE i \in 1..Len(Ascii) : Ascii[i] = c)

\* the str (equally, its UTF-8 bytes) spelled by a tuple of ASCII characters
Chars(cs) == [i \in 1..Len(cs) |-> Ord(cs[i])]

\* n copies of byte b
Rep(b, n) == [i \in 1..n |-> b]

SetMin(S) == CHOOSE x \in S : \A y \in S : x <= y

(***************************************************************************)
(* bytes.decode('utf-8'), strict error handling.                            *)
(***************************************************************************)
IsCont(b) == b \in 128..191

\* length of the sequence a leading byte announces; 0 for a byte that cannot lead
Utf8Len(b) ==
  IF b < 128 THEN 1
  ELSE IF b \in 194..223 THEN 2
  ELSE IF b \in 224..239 THEN 3
  ELSE IF b \in 240..244 THEN 4
  ELSE 0

\* the range allowed for the byte after leading byte b (no overlong forms,
\* no surrogates, nothing above U+10FFFF)
Utf8Second(b) ==
  IF b = 224 THEN 160..191
  ELSE IF b = 237 THEN 128..159
  ELSE IF b = 240 THEN 144..191
  ELSE IF b = 244 THEN 128..143
  ELSE 128..191

Utf8Starts(d) == {i \in 1..Len(d) : ~IsCont(d[i])}

Utf8WellFormedAt(d, i) ==
  LET n == Utf8Len(d[i]) IN
    /\ n > 0
    /\ i + n - 1 <= Len(d)
    /\ \A k \in 1..(n - 1) : IsCont(d[i + k])
    /\ n > 1 => d[i + 1] \in Utf8Second(d[i])
    /\ i + n <= Len(d) => ~IsCont(d[i + n])

Utf8Valid(d) ==
  /\ Len(d) > 0 => ~IsCont(d[1])
  /\ \A i \in Utf8Starts(d) : Utf8WellFormedAt(d, i)

Utf8CodePoint(d, i) ==
  LET n == Utf8Len(d[i]) IN
    IF n = 1 THEN d[i]
    ELSE IF n = 2 THEN (d[i] - 192) * 64 + (d[i + 1] - 128)
    ELSE IF n = 3 THEN (d[i] - 224) * 4096 + (d[i + 1] - 128) * 64 + (d[i + 2] - 128)
    ELSE (d[i] - 240) * 262144 + (d[i + 1] - 128) * 4096
           + (d[i + 2] - 128) * 64 + (d[i + 3] - 128)

\* [ok |-> FALSE] stands for UnicodeDecodeError
Utf8Decode(d) ==
  IF ~Utf8Valid(d) THEN [ok |-> FALSE, str |-> << >>]
  ELSE LET starts == Utf8Starts(d) IN
    IF Cardinality(starts) = Len(d) THEN [ok |-> TRUE, str |-> d]
    ELSE [ok |-> TRUE,
          str |-> [k \in 1..Cardinality(starts) |->
                     Utf8CodePoint(d, CHOOSE s \in starts :
                                        Cardinality({t \in starts : t <= s}) = k)]]

\* str.encode('utf-8') of a str without surrogates
Utf8EncodeChar(c) ==
  IF c < 128 THEN << c >>
  ELSE IF c < 2048 THEN << 192 + (c \div 64), 128 + (c % 64) >>
  ELSE IF c < 65536 THEN << 224 + (c \div 4096), 128 + ((c \div 64) % 64), 128 + (c % 64) >>
  ELSE << 240 + (c \div 262144), 128 + ((c \div 4096) % 64),
          128 + ((c \div 64) % 64), 128 + (c % 64) >>

RECURSIVE Utf8Encode(_)
Utf8Encode(s) == IF s = << >> THEN << >> ELSE Utf8EncodeChar(Head(s)) \o Utf8Encode(Tail(s))

(***************************************************************************)
(* JSON values.                                                             *)
(***************************************************************************)
JInt(n) == [t |-> "int", v |-> n]
JBool(b) == [t |-> "bool", v |-> b]
JNull == [t |-> "null", v |-> 0]
JStr(s) == [t |-> "str", v |-> s]
JList(xs) == [t |-> "list", v |-> xs]
JDict(ps) == [t |-> "dict", v |-> ps]

DictKeys(ps) == {ps[i][1] : i \in 1..Len(ps)}

\* d[k] of a dict holding key k
DictGet(ps, k) == ps[CHOOSE i \in 1..Len(ps) : ps[i][1] = k][2]

\* d[k] = x : a key already present keeps its position and takes the new value
DictSet(ps, k, x) ==
  IF k \in DictKeys(ps)
  THEN [i \in 1..Len(ps) |-> IF ps[i][1] = k THEN << k, x >> ELSE ps[i]]
  ELSE Append(ps, << k, x >>)

(***************************************************************************)
(* json.loads(s) on a str s.  A scan yields [ok, val, end]: the value and   *)
(* the index after it, or ok = FALSE where the decoder raises               *)
(* json.JSONDecodeError.                                                    *)
(***************************************************************************)
ScanOk(x, e) == [ok |-> TRUE, val |-> x, end |-> e]
ScanFail == [ok |-> FALSE, val |-> JNull, end |-> 0]

JsonWs == {32, 9, 10, 13}
Digits == 48..57
HexDigits == (48..57) \cup (65..70) \cup (97..102)

\* the character at index i, or 0 past the end of s
At(s, i) == IF i \in 1..Len(s) THEN s[i] ELSE 0

\* the first index from i on that holds no character of the set cs
\* (Len(s) + 1 when there is none): the end of a regular-expression run cs*
RunEnd(s, i, cs) ==
  LET stop == {j \in i..Len(s) : s[j] \notin cs} IN
    IF stop = {} THEN Len(s) + 1 ELSE SetMin(stop)

SkipWs(s, i) == RunEnd(s, i, JsonWs)

\* the end of the run of plain string characters from i on: the index of the
\* first quote, backslash or control character (Len(s) + 1 when there is none)
ChunkEnd(s, i) ==
  LET stop == {j \in i..Len(s) : s[j] < 32 \/ s[j] = 34 \/ s[j] = 92} IN
    IF stop = {} THEN Len(s) + 1 ELSE SetMin(stop)

RECURSIVE DecimalValue(_)
DecimalValue(ds) ==
  IF ds = << >> THEN 0
  ELSE 10 * DecimalValue(SubSeq(ds, 1, Len(ds) - 1)) + (ds[Len(ds)] - 48)

HexDigitValue(c) == IF c \in 48..57 THEN c - 48 ELSE IF c \in 65..70 THEN c - 55 ELSE c - 87

\* ScanNumber reading one digit where the number is a run of digits
ScanNumberOneDigit(s, i) ==
  LET p == IF At(s, i) = 45 THEN i + 1 ELSE i
      n == DecimalValue(SubSeq(s, p, p))
  IN IF At(s, p) \notin Digits THEN ScanFail
     ELSE ScanOk(JInt(IF p > i THEN 0 - n ELSE n), p + 1)

\* the integer at i: -?(0|[1-9][0-9]*)
ScanNumber(s, i) ==
  LET p == IF At(s, i) = 45 THEN i + 1 ELSE i
      e == IF At(s, p) = 48 THEN p + 1 ELSE RunEnd(s, p, Digits)
      n == DecimalValue(SubSeq(s, p, e - 1))
  IN IF At(s, p) \notin Digits THEN ScanFail
     ELSE ScanOk(JInt(IF p > i THEN 0 - n ELSE n), e)

\* the code unit of \uXXXX whose digits start at i, or -1
ScanHex4(s, i) ==
  IF \A k \in 0..3 : At(s, i + k) \in HexDigits
  THEN HexDigitValue(s[i]) * 4096 + HexDigitValue(s[i + 1]) * 256
         + HexDigitValue(s[i + 2]) * 16 + HexDigitValue(s[i + 3])
  ELSE -1

\* the character a one-letter escape stands for, or -1
SimpleEscape(c) ==
  CASE c = 34 -> 34 [] c = 92 -> 92 [] c = 47 -> 47 [] c = 98 -> 8 [] c = 102 -> 12
    [] c = 110 -> 10 [] c = 114 -> 13 [] c = 116 -> 9 [] OTHER -> -1

\* the string whose opening quote is before i; acc holds what was read so far
RECURSIVE ScanString(_, _, _)
ScanString(s, i, acc) ==
  LET e == ChunkEnd(s, i)
      chunk == acc \o SubSeq(s, i, e - 1)
      c == At(s, e + 1)
      u == ScanHex4(s, e + 2)
      lo == IF At(s, e + 6) = 92 /\ At(s, e + 7) = 117 THEN ScanHex4(s, e + 8) ELSE -1
  IN IF e > Len(s) THEN ScanFail
     ELSE IF s[e] = 34 THEN ScanOk(JStr(chunk), e + 1)
     ELSE IF s[e] # 92 THEN ScanFail
     ELSE IF c = 117 THEN
       IF u < 0 THEN ScanFail
       ELSE IF u \in 55296..56319 /\ lo \in 56320..57343
         THEN ScanString(s, e + 12,
                Append(chunk, 65536 + (u - 55296) * 1024 + (lo - 56320)))
       ELSE ScanString(s, e + 6, Append(chunk, u))
     ELSE IF SimpleEscape(c) < 0 THEN ScanFail
     ELSE ScanString(s, e + 2, Append(chunk, SimpleEscape(c)))

IsPrefixAt(s, i, w) == i + Len(w) - 1 <= Len(s) /\ SubSeq(s, i, i + Len(w) - 1) = w

RECURSIVE ScanOnce(_, _)
RECURSIVE ScanMembers(_, _, _)
RECURSIVE ScanItems(_, _, _)

\* the object members from i on, where a property name is expected
ScanMembers(s, i, acc) ==
  IF At(s, i) # 34 THEN ScanFail
  ELSE LET key == ScanString(s, i + 1, << >>) IN
    IF ~key.ok THEN ScanFail
    ELSE LET colon == SkipWs(s, key.end) IN
      IF At(s, colon) # 58 THEN ScanFail
      ELSE LET x == ScanOnce(s, SkipWs(s, colon + 1)) IN
        IF ~x.ok THEN ScanFail
        ELSE LET nxt == SkipWs(s, x.end)
                 pairs == DictSet(acc, key.val.v, x.val)
             IN IF At(s, nxt) = 125 THEN ScanOk(JDict(pairs), nxt + 1)
                ELSE IF At(s, nxt) = 44 THEN ScanMembers(s, SkipWs(s, nxt + 1), pairs)
                ELSE ScanFail

\* the array items from i on, where a value is expected
ScanItems(s, i, acc) ==
  LET x == ScanOnce(s, i) IN
    IF ~x.ok THEN ScanFail
    ELSE LET nxt == SkipWs(s, x.end)
             items == Append(acc, x.val)
         IN IF At(s, nxt) = 93 THEN ScanOk(JList(items), nxt + 1)
            ELSE IF At(s, nxt) = 44 THEN ScanItems(s, SkipWs(s, nxt + 1), items)
            ELSE ScanFail

\* the value that starts at index i
ScanOnce(s, i) ==
  LET c == At(s, i)
      in == SkipWs(s, i + 1)
  IN IF c = 34 THEN ScanString(s, i + 1, << >>)
     ELSE IF c = 123 THEN
       IF At(s, in) = 125 THEN ScanOk(JDict(<< >>), in + 1) ELSE ScanMembers(s, in, << >>)
     ELSE IF c = 91 THEN
       IF At(s, in) = 93 THEN ScanOk(JList(<< >>), in + 1) ELSE ScanItems(s, in, << >>)
     ELSE IF IsPrefixAt(s, i, Chars(<< "n", "u", "l", "l" >>)) THEN ScanOk(JNull, i + 4)
     ELSE IF IsPrefixAt(s, i, Chars(<< "t", "r", "u", "e" >>)) THEN ScanOk(JBool(TRUE), i + 4)
     ELSE IF IsPrefixAt(s, i, Chars(<< "f", "a", "l", "s", "e" >>))
       THEN ScanOk(JBool(FALSE), i + 5)
     ELSE ScanNumber(s, i)

\* json.loads(s): one value, white space around it, nothing else
\* ([ok |-> FALSE] stands for json.JSONDecodeError)
json_loads(s) ==
  LET x == ScanOnce(s, SkipWs(s, 1)) IN
    IF At(s, 1) = 65279 \/ ~x.ok THEN [ok |-> FALSE, val |-> JNull]
    ELSE IF SkipWs(s, x.end) # Len(s) + 1 THEN [ok |-> FALSE, val |-> JNull]
    ELSE [ok |-> TRUE, val |-> x.val]

(***************************************************************************)
(* json.dumps(x) with the default separators and ensure_ascii.              *)
(***************************************************************************)
RECURSIVE DecimalDigits(_)
DecimalDigits(n) ==
  IF n < 10 THEN << 48 + n >> ELSE Append(DecimalDigits(n \div 10), 48 + (n % 10))

HexDigit(n) == IF n < 10 THEN 48 + n ELSE 87 + n

EscapeU(c) ==
  << 92, 117, HexDigit(c \div 4096), HexDigit((c \div 256) % 16),
     HexDigit((c \div 16) % 16), HexDigit(c % 16) >>

\* an encoder that writes the quote and the backslash as they are
EscapeCharUnescaped(c) ==
  CASE c = 10 -> << 92, 110 >>
    [] c = 13 -> << 92, 114 >> [] c = 9 -> << 92, 116 >> [] c = 12 -> << 92, 102 >>
    [] c = 8 -> << 92, 98 >>
    [] c \in 32..126 -> << c >>
    [] c >= 65536 -> EscapeU(55296 + ((c - 65536) \div 1024))
                       \o EscapeU(56320 + ((c - 65536) % 1024))
    [] OTHER -> EscapeU(c)

EscapeChar(c) ==
  CASE c = 34 -> << 92, 34 >> [] c = 92 -> << 92, 92 >> [] c = 10 -> << 92, 110 >>
    [] c = 13 -> << 92, 114 >> [] c = 9 -> << 92, 116 >> [] c = 12 -> << 92, 102 >>
    [] c = 8 -> << 92, 98 >>
    [] c \in 32..126 \ {34, 92} -> << c >>
    [] c >= 65536 -> EscapeU(55296 + ((c - 65536) \div 1024))
                       \o EscapeU(56320 + ((c - 65536) % 1024))
    [] OTHER -> EscapeU(c)

RECURSIVE EncodeString(_)
EncodeString(s) == IF s = << >> THEN << >> ELSE EscapeChar(Head(s)) \o EncodeString(Tail(s))

RECURSIVE json_dumps(_)
RECURSIVE DumpsJoin(_, _)

\* the items (of a list) or the "key": value members (of a dict), joined by ", "
DumpsJoin(xs, isDict) ==
  LET one(x) == IF isDict THEN << 34 >> \o EncodeString(x[1]) \o << 34, 58, 32 >> \o json_dumps(x[2])
                ELSE json_dumps(x)
  IN IF xs = << >> THEN << >>
     ELSE IF Len(xs) = 1 THEN one(xs[1])
     ELSE one(xs[1]) \o << 44, 32 >> \o DumpsJoin(Tail(xs), isDict)

json_dumps(x) ==
  CASE x.t = "int" -> IF x.v < 0 THEN << 45 >> \o DecimalDigits(0 - x.v) ELSE DecimalDigits(x.v)
    [] x.t = "bool" -> IF x.v THEN Chars(<< "t", "r", "u", "e" >>)
                       ELSE Chars(<< "f", "a", "l", "s", "e" >>)
    [] x.t = "null" -> Chars(<< "n", "u", "l", "l" >>)
    [] x.t = "str" -> << 34 >> \o EncodeString(x.v) \o << 34 >>
    [] x.t = "list" -> << 91 >> \o DumpsJoin(x.v, FALSE) \o << 93 >>
    [] x.t = "dict" -> << 123 >> \o DumpsJoin(x.v, TRUE) \o << 125 >>

(***************************************************************************)
(* Program constants.                                                       *)
(***************************************************************************)
MCAST_GRP == "239.255.70.77"
MCAST_PORT == 7077
PORT == 7077
MCAST_TTL == 2
RecvBufSize == 1024

BROADCAST_ADDR == "255.255.255.255"

\* the dict test_sender.py serialises
TestPayload ==
  JDict(<< << Chars(<< "c", "o", "r", "t", "e", "x" >>), JBool(TRUE) >>,
           << Chars(<< "n", "o", "d", "e", "_", "i", "d" >>), JStr(Chars(<< "T", "E", "S", "T", "_", "S", "E", "N", "D", "E", "R" >>)) >>,
           << Chars(<< "t", "y", "p", "e" >>), JStr(Chars(<< "d", "i", "s", "c", "o", "v", "e", "r", "y" >>)) >>,
           << Chars(<< "a", "g", "e", "n", "t", "s" >>), JInt(1) >> >>)

(***************************************************************************)
(* Bounds of the model, and the traffic of the other hosts on the network.  *)
(***************************************************************************)
MaxEnvSends == 2
MaxRecv == 2
MaxInFlight == 2

SenderAddr == << "192.168.0.10", 50010 >>
NodeAAddr == << "192.168.0.20", 50020 >>
StrangerAddr == << "192.168.0.66", 50066 >>

\* an announcement of node "A" reporting n agents
Announcement(n) ==
  JDict(<< << Chars(<< "c", "o", "r", "t", "e", "x" >>), JBool(TRUE) >>,
           << Chars(<< "n", "o", "d", "e", "_", "i", "d" >>), JStr(Chars(<< "A" >>)) >>,
           << Chars(<< "t", "y", "p", "e" >>), JStr(Chars(<< "d", "i", "s", "c", "o", "v", "e", "r", "y" >>)) >>,
           << Chars(<< "a", "g", "e", "n", "t", "s" >>), JInt(n) >> >>)

NodeAPayloads == {Announcement(n) : n \in {3, 12}}

\* what hosts that are no CortexOS nodes send to the same port
StrangerData ==
  { << >>,                                                \* an empty datagram
    Chars(<< "h", "e", "l", "l", "o" >>),                                       \* text, not JSON
    Chars(<< "{", "\"", "a", "\"", ":", " ", "1", "}" >>),                                    \* JSON without the tag
    << 255, 254 >>,                                       \* not UTF-8
    Chars(<< "{", "\"", "a", "\"", ":", " ", "1", "}" >>) \o Rep(32, RecvBufSize),            \* JSON, then padding
    << 34 >> \o Rep(97, RecvBufSize + 8) \o << 34 >>,     \* one long JSON string
    << 34 >> \o Rep(97, RecvBufSize - 2) \o << 195, 169, 34 >> }
                                        \* a two-byte character across byte 1024

Destinations == { << MCAST_GRP, MCAST_PORT >>, << BROADCAST_ADDR, PORT >> }

Datagram(data, src, dst, ttl) == [data |-> data, src |-> src, dst |-> dst, ttl |-> ttl]

\* the datagrams the hosts of the network send to the port: the announcements
\* of node "A" and the bytes of the strangers, broadcast or sent to the group
Traffic ==
  {Datagram(Utf8Encode(json_dumps(p)), NodeAAddr, dst, 1) :
     p \in NodeAPayloads, dst \in Destinations}
  \cup {Datagram(d, StrangerAddr, dst, 1) : d \in StrangerData, dst \in Destinations}

IsMulticast(ip) == ip = MCAST_GRP

(***************************************************************************)
(* State.                                                                   *)
(***************************************************************************)
VARIABLES
  kind,        \* which listener runs: "broadcast" or "discovery"
  lpc,         \* the listener's position in main
  lopts,       \* socket options set on the listener's socket
  bound,       \* the listener's socket is bound to its port
  joined,      \* multicast groups the listener's socket is a member of
  cur,         \* (data, addr) as recvfrom returned them, while being handled
  events,      \* what the listener printed, one record per report
  lexc,        \* the exception that left the listener's main, or "none"
  spc,         \* the sender's position in its script
  sopts,       \* socket options set on the sender's socket
  smsg,        \* the sender's msg
  net,         \* datagrams in flight (a bag)
  delivered,   \* history: the datagrams recvfrom has returned, as they were sent
  ssent,       \* history: the datagrams the sender has transmitted
  asent,       \* history: the payloads node "A" has announced
  envSends,    \* history: number of datagrams other hosts have sent
  recvCalls,   \* history: number of recvfrom calls that returned or raised
  recvErrors,  \* history: number of recvfrom calls that raised OSError
  bindFailed,  \* history: bind raised OSError
  interrupted, \* history: a KeyboardInterrupt was raised in the listener
  cancelled,   \* history: an external cancellation was signalled
  rt_payload,  \* round trip: the announcement payload P
  rt_pc,       \* round trip: "idle", "payload", "encoded" or "decoded"
  rt_bytes,    \* round trip: the datagram bytes Encode(P)
  rt_result,   \* round trip: what decoding rt_bytes gave
  argv,        \* issue creator: the command line, [dry_run, phase]
  environ,     \* issue creator: GITHUB_TOKEN in the environment, << >> if unset
  pygithub_installed, \* issue creator: "from github import Github" succeeds
  ipc,         \* issue creator: position in main
  args,        \* issue creator: what parse_args returned
  prs_to_create, \* issue creator: the selected PR records
  listed,      \* history: the PR numbers the dry run has printed
  token,       \* issue creator: os.environ.get("GITHUB_TOKEN")
  client_constructed, \* history: Github(token) was called
  asked,       \* history: the confirmation prompt was shown
  response,    \* issue creator: << answer >> once input has returned it
  idx,         \* issue creator: position of the for loop in prs_to_create
  calls,       \* history: the PR numbers create_issue was called for, in order
  created,     \* issue creator: created
  failed,      \* issue creator: failed
  returned_calls, \* history: number of create_issue calls that returned
  printed,     \* history: the kinds of message main has printed
  exit_status  \* issue creator: << n >> after sys.exit(n), << >> otherwise

lvars == << kind, lpc, lopts, bound, joined, cur, events, lexc >>
svars == << spc, sopts, smsg, ssent >>
hvars == << delivered, recvCalls, recvErrors, bindFailed, interrupted >>
toolVars == << kind, lpc, lopts, bound, joined, cur, events, lexc, spc, sopts,
               smsg, net, delivered, ssent, asent, envSends, recvCalls,
               recvErrors, bindFailed, interrupted, cancelled >>
codecVars == << rt_payload, rt_pc, rt_bytes, rt_result >>
issueInputs == << argv, environ, pygithub_installed >>
issueVars == << argv, environ, pygithub_installed, ipc, args, prs_to_create,
                listed, token, client_constructed, asked, response, idx, calls,
                created, failed, returned_calls, printed, exit_status >>
vars == << toolVars, codecVars, issueVars >>

NoDatagram == [data |-> << >>, addr |-> << "", 0 >>]

NoResult == [ok |-> FALSE, exc |-> "none", val |-> JNull]

\* no round trip is under way
CodecIdle ==
  /\ rt_payload = JNull
  /\ rt_pc = "idle"
  /\ rt_bytes = << >>
  /\ rt_result = NoResult

NoArgs == [dry_run |-> FALSE, phase |-> << >>]

\* the issue creator is not run
IssuesIdle ==
  /\ argv = NoArgs
  /\ environ = << >>
  /\ pygithub_installed = FALSE
  /\ ipc = "idle"
  /\ args = NoArgs
  /\ prs_to_create = << >>
  /\ listed = << >>
  /\ token = << >>
  /\ client_constructed = FALSE
  /\ asked = FALSE
  /\ response = << >>
  /\ idx = 1
  /\ calls = << >>
  /\ created = 0
  /\ failed = 0
  /\ returned_calls = 0
  /\ printed = {}
  /\ exit_status = << >>

\* the listener and the sender scripts before their first statement
ToolsInit ==
  /\ kind \in {"broadcast", "discovery"}
  /\ lpc = "socket"
  /\ lopts = {}
  /\ bound = FALSE
  /\ joined = {}
  /\ cur = NoDatagram
  /\ events = << >>
  /\ lexc = "none"
  /\ spc = "socket"
  /\ sopts = {}
  /\ smsg = << >>
  /\ net = EmptyBag
  /\ delivered = << >>
  /\ ssent = << >>
  /\ asent = {}
  /\ envSends = 0
  /\ recvCalls = 0
  /\ recvErrors = 0
  /\ bindFailed = FALSE
  /\ interrupted = FALSE
  /\ cancelled = FALSE

OtherIdle == CodecIdle /\ IssuesIdle

Init == ToolsInit /\ OtherIdle

(***************************************************************************)
(* The network.                                                             *)
(***************************************************************************)
InFlight == BagCardinality(net)

\* the hop limit a socket with options opts sends multicast with (1 by default)
MulticastTtl(opts) ==
  IF \E o \in opts : o[1] = "IP_MULTICAST_TTL"
  THEN (CHOOSE o \in opts : o[1] = "IP_MULTICAST_TTL")[2]
  ELSE 1

\* the listener's socket takes datagram m: it is bound to m's port and, for a
\* multicast destination, a member of the group
Deliverable(m) ==
  /\ bound
  /\ m.dst[2] = (IF kind = "broadcast" THEN PORT ELSE MCAST_PORT)
  /\ IsMulticast(m.dst[1]) => m.dst[1] \in joined

\* node "A" broadcasts an announcement of payload p
EnvAnnounce ==
  \E p \in NodeAPayloads :
    /\ envSends < MaxEnvSends
    /\ InFlight < MaxInFlight
    /\ net' = net (+) SetToBag({Datagram(Utf8Encode(json_dumps(p)), NodeAAddr,
                                         << BROADCAST_ADDR, PORT >>, 1)})
    /\ asent' = asent \cup {p}
    /\ envSends' = envSends + 1
    /\ UNCHANGED << lvars, svars, hvars, cancelled >>

\* the network duplicates a datagram
NetDuplicate ==
  \E m \in BagToSet(net) :
    /\ InFlight < MaxInFlight
    /\ net' = net (+) SetToBag({m})
    /\ UNCHANGED << lvars, svars, hvars, asent, envSends, cancelled >>

\* the network loses a datagram (or no socket takes it)
NetDrop ==
  \E m \in BagToSet(net) :
    /\ net' = net (-) SetToBag({m})
    /\ UNCHANGED << lvars, svars, hvars, asent, envSends, cancelled >>

\* an external cancellation is signalled to the listener's process
Cancel ==
  /\ ~cancelled
  /\ lpc \notin {"returned", "crashed"}
  /\ cancelled' = TRUE
  /\ UNCHANGED << lvars, svars, hvars, net, asent, envSends >>

(***************************************************************************)
(* tools/test_sender.py                                                     *)
(***************************************************************************)
SenderSocket ==
  /\ spc = "socket"
  /\ spc' = "setsockopt"
  /\ UNCHANGED << lvars, hvars, sopts, smsg, ssent, net, asent, envSends, cancelled >>

\* SenderSetTtl without the setsockopt call
SenderSetTtlSkipped ==
  /\ spc = "setsockopt"
  /\ spc' = "dumps"
  /\ UNCHANGED << lvars, hvars, sopts, smsg, ssent, net, asent, envSends, cancelled >>

SenderSetTtl ==
  /\ spc = "setsockopt"
  /\ sopts' = sopts \cup {<< "IP_MULTICAST_TTL", MCAST_TTL >>}
  /\ spc' = "dumps"
  /\ UNCHANGED << lvars, hvars, smsg, ssent, net, asent, envSends, cancelled >>

SenderDumps ==
  /\ spc = "dumps"
  /\ smsg' = json_dumps(TestPayload)
  /\ spc' = "sendto"
  /\ UNCHANGED << lvars, hvars, sopts, ssent, net, asent, envSends, cancelled >>

\* sendto transmits the datagram; "Sent!" is printed and the script ends
SenderSendTo ==
  /\ spc = "sendto"
  /\ InFlight < MaxInFlight
  /\ LET m == Datagram(Utf8Encode(smsg), SenderAddr, << MCAST_GRP, MCAST_PORT >>,
                       MulticastTtl(sopts))
     IN /\ net' = net (+) SetToBag({m})
        /\ ssent' = Append(ssent, m)
  /\ spc' = "done"
  /\ UNCHANGED << lvars, hvars, sopts, smsg, asent, envSends, cancelled >>

\* sendto raises OSError, which nothing catches
SenderSendFails ==
  /\ spc = "sendto"
  /\ spc' = "crashed"
  /\ UNCHANGED << lvars, hvars, sopts, smsg, ssent, net, asent, envSends, cancelled >>

(***************************************************************************)
(* tools/broadcast_listener.py and tools/discovery_listener.py: main        *)
(***************************************************************************)
InLoop == lpc \in {"recv", "handle"}

\* how a report shows the sender's address: addr[0] or addr
ShownAddr(k, addr) == IF k = "broadcast" THEN << addr[1] >> ELSE addr

DecodedEvent(k, addr, msg) ==
  [kind |-> "decoded", from |-> ShownAddr(k, addr), msg |-> msg, data |-> << >>]

RawEvent(k, addr, data) ==
  [kind |-> "raw", from |-> ShownAddr(k, addr), msg |-> JNull, data |-> data]

\* what recvfrom(bufsize) returns of a datagram: the rest is discarded
Truncate(data, bufsize) == SubSeq(data, 1, IF Len(data) < bufsize THEN Len(data) ELSE bufsize)

ListenerSocket ==
  /\ lpc = "socket"
  /\ lpc' = "setsockopt"
  /\ UNCHANGED << kind, lopts, bound, joined, cur, events, lexc, svars, hvars,
                  net, asent, envSends, cancelled >>

ListenerReuseAddr ==
  /\ lpc = "setsockopt"
  /\ lopts' = lopts \cup {<< "SO_REUSEADDR", 1 >>}
  /\ lpc' = "bind"
  /\ UNCHANGED << kind, bound, joined, cur, events, lexc, svars, hvars,
                  net, asent, envSends, cancelled >>

ListenerBind ==
  /\ lpc = "bind"
  /\ bound' = TRUE
  /\ lpc' = IF kind = "discovery" THEN "join" ELSE "recv"
  /\ UNCHANGED << kind, lopts, joined, cur, events, lexc, svars, net, asent,
                  envSends, cancelled, delivered, recvCalls, recvErrors,
                  bindFailed, interrupted >>

\* ListenerBindFails with the broadcast listener's handler missing its return
ListenerBindFailsNoReturn ==
  /\ lpc = "bind"
  /\ bindFailed' = TRUE
  /\ IF kind = "broadcast"
     THEN lpc' = "recv" /\ lexc' = lexc
     ELSE lpc' = "crashed" /\ lexc' = "OSError"
  /\ UNCHANGED << kind, lopts, bound, joined, cur, events, svars, net, asent,
                  envSends, cancelled, delivered, recvCalls, recvErrors, interrupted >>

\* bind raises OSError: the broadcast listener reports it and returns, the
\* discovery listener lets it leave main
ListenerBindFails ==
  /\ lpc = "bind"
  /\ bindFailed' = TRUE
  /\ IF kind = "broadcast"
     THEN lpc' = "returned" /\ lexc' = lexc
     ELSE lpc' = "crashed" /\ lexc' = "OSError"
  /\ UNCHANGED << kind, lopts, bound, joined, cur, events, svars, net, asent,
                  envSends, cancelled, delivered, recvCalls, recvErrors, interrupted >>

\* ListenerJoin without the IP_ADD_MEMBERSHIP call
ListenerJoinNoMembership ==
  /\ lpc = "join"
  /\ lpc' = "recv"
  /\ UNCHANGED << kind, lopts, bound, joined, cur, events, lexc, svars, hvars,
                  net, asent, envSends, cancelled >>

\* the discovery listener joins the group
ListenerJoin ==
  /\ lpc = "join"
  /\ joined' = joined \cup {MCAST_GRP}
  /\ lpc' = "recv"
  /\ UNCHANGED << kind, lopts, bound, cur, events, lexc, svars, hvars,
                  net, asent, envSends, cancelled >>

\* IP_ADD_MEMBERSHIP raises OSError, which leaves main
ListenerJoinFails ==
  /\ lpc = "join"
  /\ lpc' = "crashed"
  /\ lexc' = "OSError"
  /\ UNCHANGED << kind, lopts, bound, joined, cur, events, svars, hvars,
                  net, asent, envSends, cancelled >>

\* recvfrom returns datagram m
ListenerRecvFrom(m) ==
  /\ lpc = "recv"
  /\ Len(delivered) < MaxRecv
  /\ Deliverable(m)
  /\ cur' = [data |-> Truncate(m.data, RecvBufSize), addr |-> m.src]
  /\ delivered' = Append(delivered, m)
  /\ recvCalls' = recvCalls + 1
  /\ lpc' = "handle"
  /\ UNCHANGED << kind, lopts, bound, joined, events, lexc, svars, asent,
                  envSends, cancelled, recvErrors, bindFailed, interrupted >>

\* recvfrom returns one of the datagrams in flight
ListenerRecv ==
  \E m \in BagToSet(net) :
    /\ ListenerRecvFrom(m)
    /\ net' = net (-) SetToBag({m})

\* recvfrom returns a datagram some host on the network has just sent
ListenerRecvTraffic ==
  \E m \in Traffic :
    /\ ListenerRecvFrom(m)
    /\ net' = net

\* recvfrom raises OSError: only KeyboardInterrupt is caught around it
ListenerRecvFails ==
  /\ lpc = "recv"
  /\ recvCalls' = recvCalls + 1
  /\ recvErrors' = recvErrors + 1
  /\ lpc' = "crashed"
  /\ lexc' = "OSError"
  /\ UNCHANGED << kind, lopts, bound, joined, cur, events, svars, net, asent,
                  envSends, cancelled, delivered, bindFailed, interrupted >>

\* ListenerHandle with the two reports exchanged
ListenerHandleSwapped ==
  /\ lpc = "handle"
  /\ LET text == Utf8Decode(cur.data)
         msg == json_loads(text.str)
     IN IF ~text.ok
        THEN /\ lpc' = "crashed"
             /\ lexc' = "UnicodeDecodeError"
             /\ UNCHANGED << events, cur >>
        ELSE /\ events' = Append(events,
                            IF ~msg.ok THEN DecodedEvent(kind, cur.addr, msg.val)
                            ELSE RawEvent(kind, cur.addr, cur.data))
             /\ cur' = NoDatagram
             /\ lpc' = "recv"
             /\ lexc' = lexc
  /\ UNCHANGED << kind, lopts, bound, joined, svars, hvars, net, asent,
                  envSends, cancelled >>

\* the body of the inner try: decode, parse and report; json.JSONDecodeError
\* is caught and the bytes reported, UnicodeDecodeError is caught by nothing
ListenerHandle ==
  /\ lpc = "handle"
  /\ LET text == Utf8Decode(cur.data)
         msg == json_loads(text.str)
     IN IF ~text.ok
        THEN /\ lpc' = "crashed"
             /\ lexc' = "UnicodeDecodeError"
             /\ UNCHANGED << events, cur >>
        ELSE /\ events' = Append(events,
                            IF msg.ok THEN DecodedEvent(kind, cur.addr, msg.val)
                            ELSE RawEvent(kind, cur.addr, cur.data))
             /\ cur' = NoDatagram
             /\ lpc' = "recv"
             /\ lexc' = lexc
  /\ UNCHANGED << kind, lopts, bound, joined, svars, hvars, net, asent,
                  envSends, cancelled >>

\* KeyboardInterrupt: inside the loop's try it ends the loop and main returns,
\* before the loop it leaves main
ListenerInterrupt ==
  /\ lpc \notin {"returned", "crashed"}
  /\ interrupted' = TRUE
  /\ IF InLoop
     THEN lpc' = "returned" /\ lexc' = lexc
     ELSE lpc' = "crashed" /\ lexc' = "KeyboardInterrupt"
  /\ UNCHANGED << kind, lopts, bound, joined, cur, events, svars, net, asent,
                  envSends, cancelled, delivered, recvCalls, recvErrors, bindFailed >>

\* the variables of the other programs keep their values
OthersStay == UNCHANGED << codecVars, issueVars >>

\* a listener, with the traffic of the other hosts arriving at its socket
Next ==
  \/ Cancel /\ OthersStay
  \/ ListenerSocket /\ OthersStay
  \/ ListenerReuseAddr /\ OthersStay
  \/ ListenerBind /\ OthersStay
  \/ ListenerBindFails /\ OthersStay
  \/ ListenerJoin /\ OthersStay
  \/ ListenerJoinFails /\ OthersStay
  \/ ListenerRecvTraffic /\ OthersStay
  \/ ListenerRecvFails /\ OthersStay
  \/ ListenerHandle /\ OthersStay
  \/ ListenerInterrupt /\ OthersStay

Spec == Init /\ [][Next]_vars

\* the test sender, node "A" and a listener, with the datagrams in flight on
\* a network that reorders, duplicates and loses them
NextNetwork ==
  \/ SenderSocket /\ OthersStay
  \/ SenderSetTtl /\ OthersStay
  \/ SenderDumps /\ OthersStay
  \/ SenderSendTo /\ OthersStay
  \/ SenderSendFails /\ OthersStay
  \/ EnvAnnounce /\ OthersStay
  \/ NetDuplicate /\ OthersStay
  \/ NetDrop /\ OthersStay
  \/ ListenerSocket /\ OthersStay
  \/ ListenerReuseAddr /\ OthersStay
  \/ ListenerBind /\ OthersStay
  \/ ListenerBindFails /\ OthersStay
  \/ ListenerJoin /\ OthersStay
  \/ ListenerJoinFails /\ OthersStay
  \/ ListenerRecv /\ OthersStay
  \/ ListenerRecvFails /\ OthersStay
  \/ ListenerHandle /\ OthersStay
  \/ ListenerInterrupt /\ OthersStay

SpecNetwork == Init /\ [][NextNetwork]_vars

(***************************************************************************)
(* The announcement payload through the sender's encoding and the           *)
(* listeners' decoding.                                                     *)
(***************************************************************************)
MaxStrLen == 2

\* code points of the node_id and metadata strings: a letter, the quote, the
\* backslash, a newline, a two-byte, a three-byte and a four-byte character
CodecAlphabet == {65, 34, 92, 10, 233, 8364, 128512}

StringsUpTo(n) == UNION {[1..k -> CodecAlphabet] : k \in 0..n}

AgentCounts == {0 - 7, 0, 12}

MetadataChoices ==
  {<< >>}
    \cup {<< << Chars(<< "c", "o", "r", "t", "e", "x" >>), JBool(b) >> >> : b \in BOOLEAN}
    \cup {<< << Chars(<< "h", "o", "s", "t" >>), JStr(t) >> >> : t \in StringsUpTo(1)}

\* the dict the sender builds, with optional metadata after the three fields
Payload(node_id, type, agents, metadata) ==
  JDict(<< << Chars(<< "n", "o", "d", "e", "_", "i", "d" >>), JStr(node_id) >>,
           << Chars(<< "t", "y", "p", "e" >>), JStr(type) >>,
           << Chars(<< "a", "g", "e", "n", "t", "s" >>), JInt(agents) >> >> \o metadata)

ValidPayloads ==
  {Payload(n, Chars(<< "d", "i", "s", "c", "o", "v", "e", "r", "y" >>), a, m) :
     n \in StringsUpTo(MaxStrLen), a \in AgentCounts, m \in MetadataChoices}

\* json.dumps(P).encode()
Encode(P) == Utf8Encode(json_dumps(P))

\* json.loads(data.decode('utf-8')), with the exception it raises if any
Decode(data) ==
  LET text == Utf8Decode(data)
      msg == json_loads(text.str)
  IN IF ~text.ok THEN [ok |-> FALSE, exc |-> "UnicodeDecodeError", val |-> JNull]
     ELSE IF ~msg.ok THEN [ok |-> FALSE, exc |-> "JSONDecodeError", val |-> JNull]
     ELSE [ok |-> TRUE, exc |-> "none", val |-> msg.val]

\* the listener and the sender scripts are not run
ToolsIdle ==
  /\ kind = "discovery"
  /\ lpc = "returned"
  /\ lopts = {}
  /\ bound = FALSE
  /\ joined = {}
  /\ cur = NoDatagram
  /\ events = << >>
  /\ lexc = "none"
  /\ spc = "done"
  /\ sopts = {}
  /\ smsg = << >>
  /\ net = EmptyBag
  /\ delivered = << >>
  /\ ssent = << >>
  /\ asent = {}
  /\ envSends = 0
  /\ recvCalls = 0
  /\ recvErrors = 0
  /\ bindFailed = FALSE
  /\ interrupted = FALSE
  /\ cancelled = FALSE

InitCodec ==
  /\ ToolsIdle
  /\ IssuesIdle
  /\ rt_payload \in ValidPayloads
  /\ rt_pc = "payload"
  /\ rt_bytes = << >>
  /\ rt_result = NoResult

CodecEncode ==
  /\ rt_pc = "payload"
  /\ rt_bytes' = Encode(rt_payload)
  /\ rt_pc' = "encoded"
  /\ UNCHANGED << rt_payload, rt_result, toolVars, issueVars >>

CodecDecode ==
  /\ rt_pc = "encoded"
  /\ rt_result' = Decode(rt_bytes)
  /\ rt_pc' = "decoded"
  /\ UNCHANGED << rt_payload, rt_bytes, toolVars, issueVars >>

NextCodec == CodecEncode \/ CodecDecode

SpecCodec == InitCodec /\ [][NextCodec]_vars

(***************************************************************************)
(* The issue creator: its data.                                            *)
(***************************************************************************)
\* a PR record; the fields left out (title, milestone, priority, size,
\* duration, description, tasks, labels) only feed the text of the issue
PR(number, dependencies) == [number |-> number, dependencies |-> dependencies]

PRS ==
  << PR(2, << >>),
     PR(3, << >>),
     PR(4, << >>),
     PR(5, << 2 >>),
     PR(6, << >>),
     PR(7, << >>),
     PR(8, << 7 >>),
     PR(9, << 8 >>),
     PR(10, << 8 >>),
     PR(11, << >>),
     PR(12, << >>),
     PR(13, << 11 >>),
     PR(14, << >>),
     PR(15, << 14 >>),
     PR(16, << 15 >>),
     PR(17, << >>),
     PR(18, << 17 >>),
     PR(19, << 15, 18 >>),
     PR(20, << >>),
     PR(21, << 20 >>),
     PR(22, << 20 >>),
     PR(23, << 21, 22 >>),
     PR(24, << >>),
     PR(25, << 24 >>),
     PR(26, << >>),
     PR(27, << 9, 25, 26 >>),
     PR(28, << 20 >>),
     PR(29, << 23 >>),
     PR(30, << 28, 29 >>),
     PR(31, << 2, 3, 4, 5, 6, 7, 8, 9, 10, 11, 12, 13, 14, 15, 16, 17, 18, 19, 20, 21, 22, 23, 24, 25, 26, 27, 28, 29, 30 >>),
     PR(32, << 31 >>),
     PR(33, << 31 >>),
     PR(34, << 31 >>),
     PR(35, << 31 >>),
     PR(36, << >>),
     PR(37, << >>),
     PR(38, << >>),
     PR(39, << >>),
     PR(40, << >>) >>

\* the table of a phase's PR numbers, without phase 8
phase_prs_without_cross_cutting ==
  << << 2, 3, 4, 7, 36, 37, 39 >>,
     << 5, 6, 8, 9, 10, 11, 12, 13 >>,
     << 14, 15, 16, 17, 18, 19 >>,
     << 20, 21, 22, 23 >>,
     << 24, 25, 26, 27 >>,
     << 28, 29, 30 >>,
     << 31, 32, 33, 34, 35 >>,
     << >> >>

\* the dict of main, keyed 1..8
phase_prs ==
  << << 2, 3, 4, 7, 36, 37, 39 >>,
     << 5, 6, 8, 9, 10, 11, 12, 13 >>,
     << 14, 15, 16, 17, 18, 19 >>,
     << 20, 21, 22, 23 >>,
     << 24, 25, 26, 27 >>,
     << 28, 29, 30 >>,
     << 31, 32, 33, 34, 35 >>,
     << 36, 37, 38, 39, 40 >> >>

Range(xs) == {xs[i] : i \in DOMAIN xs}

Numbers(prs) == [i \in DOMAIN prs |-> prs[i].number]

\* phase_prs.get(phase, [])
PhaseNumbers(phase) == IF phase \in DOMAIN phase_prs THEN phase_prs[phase] ELSE << >>

\* [pr for pr in PRS if pr.number in phase_numbers]
FilterByPhase(phase_numbers) ==
  LET in_phase(pr) == pr.number \in Range(phase_numbers)
  IN SelectSeq(PRS, in_phase)

\* the truth value of args.phase: None and 0 are false
Truthy(phase) == phase # << >> /\ phase[1] # 0

\* choices=range(1, 9)
PhaseChoices == 1..8

\* str.lower on the characters of an answer
Lower(str) == [i \in DOMAIN str |-> IF str[i] \in 65..90 THEN str[i] + 32 ELSE str[i]]

\* "except Exception" catches everything but the exceptions that derive from
\* BaseException only
ExceptBaseException(exc) == TRUE

ExceptException(exc) == exc \notin {"SystemExit", "KeyboardInterrupt", "GeneratorExit"}

\* the pr a for loop over prs yields at its idx-th iteration, from the end
IterateReversed(prs, i) == prs[Len(prs) + 1 - i]

\* the pr a for loop over prs yields at its idx-th iteration
Iterate(prs, i) == prs[i]

(***************************************************************************)
(* The issue creator: main.                                                *)
(***************************************************************************)
CommandLines ==
  [dry_run : BOOLEAN, phase : {<< >>} \cup {<< k >> : k \in 0..9}]

Environments == {<< >>, << "" >>, << "ghp_token" >>}

\* answers typed at the prompt: y, Y, n, N, nothing, yes, " y"
Responses ==
  {<< 121 >>, << 89 >>, << 110 >>, << 78 >>, << >>, << 121, 101, 115 >>, << 32, 121 >>}

\* what Github(token) and g.get_repo(...) can do
ConnectOutcomes == {"ok", "BadCredentialsException", "ConnectionError"}

InitIssues ==
  /\ ToolsIdle
  /\ CodecIdle
  /\ argv \in CommandLines
  /\ environ \in Environments
  /\ pygithub_installed \in BOOLEAN
  /\ ipc = "parse_args"
  /\ args = NoArgs
  /\ prs_to_create = << >>
  /\ listed = << >>
  /\ token = << >>
  /\ client_constructed = FALSE
  /\ asked = FALSE
  /\ response = << >>
  /\ idx = 1
  /\ calls = << >>
  /\ created = 0
  /\ failed = 0
  /\ returned_calls = 0
  /\ printed = {}
  /\ exit_status = << >>

\* parse_args: a --phase outside range(1, 9) is an error, exit status 2
ParseArgs ==
  /\ ipc = "parse_args"
  /\ IF argv.phase # << >> /\ argv.phase[1] \notin PhaseChoices
     THEN /\ ipc' = "exited"
          /\ exit_status' = << 2 >>
          /\ args' = args
     ELSE /\ args' = argv
          /\ ipc' = "select"
          /\ exit_status' = exit_status
  /\ UNCHANGED << issueInputs, prs_to_create, listed, token, client_constructed,
                  asked, response, idx, calls, created, failed, returned_calls,
                  printed, toolVars, codecVars >>

\* prs_to_create = PRS, filtered by the phase if one is given; the banner
SelectPRs ==
  /\ ipc = "select"
  /\ IF Truthy(args.phase)
     THEN /\ prs_to_create' = FilterByPhase(PhaseNumbers(args.phase[1]))
          /\ printed' = printed \cup {"phase_selected", "banner"}
     ELSE /\ prs_to_create' = PRS
          /\ printed' = printed \cup {"banner"}
  /\ ipc' = IF args.dry_run THEN "dry_run" ELSE "token"
  /\ UNCHANGED << issueInputs, args, listed, token, client_constructed, asked,
                  response, idx, calls, created, failed, returned_calls,
                  exit_status, toolVars, codecVars >>

\* one iteration of the dry run's for loop
DryRunList ==
  /\ ipc = "dry_run"
  /\ Len(listed) < Len(prs_to_create)
  /\ listed' = Append(listed, Iterate(prs_to_create, Len(listed) + 1).number)
  /\ printed' = printed \cup {"would_create"}
  /\ UNCHANGED << issueInputs, ipc, args, prs_to_create, token, client_constructed,
                  asked, response, idx, calls, created, failed, returned_calls,
                  exit_status, toolVars, codecVars >>

\* a dry run that goes on to the token after its summary
DryRunFallsThrough ==
  /\ ipc = "dry_run"
  /\ Len(listed) = Len(prs_to_create)
  /\ printed' = printed \cup {"dry_run_summary"}
  /\ ipc' = "token"
  /\ UNCHANGED << issueInputs, args, prs_to_create, listed, token,
                  client_constructed, asked, response, idx, calls, created,
                  failed, returned_calls, exit_status, toolVars, codecVars >>

\* the dry run's summary and its return
DryRunReturn ==
  /\ ipc = "dry_run"
  /\ Len(listed) = Len(prs_to_create)
  /\ printed' = printed \cup {"dry_run_summary"}
  /\ ipc' = "returned"
  /\ UNCHANGED << issueInputs, args, prs_to_create, listed, token,
                  client_constructed, asked, response, idx, calls, created,
                  failed, returned_calls, exit_status, toolVars, codecVars >>

\* the truth value of os.environ.get("GITHUB_TOKEN"): None and "" are false
TokenSet(t) == t # << >> /\ t[1] # ""

GetToken ==
  /\ ipc = "token"
  /\ token' = environ
  /\ IF ~TokenSet(environ)
     THEN /\ printed' = printed \cup {"token_not_set"}
          /\ ipc' = "exited"
          /\ exit_status' = << 1 >>
     ELSE /\ ipc' = "client"
          /\ UNCHANGED << printed, exit_status >>
  /\ UNCHANGED << issueInputs, args, prs_to_create, listed, client_constructed,
                  asked, response, idx, calls, created, failed, returned_calls,
                  toolVars, codecVars >>

\* the try block around import_github, Github(token) and get_repo
InitClient ==
  /\ ipc = "client"
  /\ IF ~pygithub_installed
     THEN \* import_github returned None: sys.exit(1) raises SystemExit
          /\ client_constructed' = client_constructed
          /\ printed' = printed \cup {"pygithub_not_installed"}
                          \cup IF ExceptException("SystemExit") THEN {"connect_error"} ELSE {}
          /\ ipc' = "exited"
          /\ exit_status' = << 1 >>
     ELSE /\ client_constructed' = TRUE
          /\ \E outcome \in ConnectOutcomes :
               IF outcome = "ok"
               THEN /\ printed' = printed \cup {"repository"}
                    /\ ipc' = "confirm"
                    /\ exit_status' = exit_status
               ELSE /\ printed' = printed
                                    \cup IF ExceptException(outcome) THEN {"connect_error"} ELSE {}
                    /\ ipc' = IF ExceptException(outcome) THEN "exited" ELSE "crashed"
                    /\ exit_status' = << 1 >>
  /\ UNCHANGED << issueInputs, args, prs_to_create, listed, token, asked, response,
                  idx, calls, created, failed, returned_calls, toolVars, codecVars >>

\* input returns an answer
Confirm ==
  /\ ipc = "confirm"
  /\ asked' = TRUE
  /\ \E r \in Responses :
       /\ response' = << r >>
       /\ IF Lower(r) # << 121 >>
          THEN /\ printed' = printed \cup {"cancelled"}
               /\ ipc' = "exited"
               /\ exit_status' = << 0 >>
          ELSE /\ ipc' = "loop"
               /\ UNCHANGED << printed, exit_status >>
  /\ created' = 0
  /\ failed' = 0
  /\ idx' = 1
  /\ UNCHANGED << issueInputs, args, prs_to_create, listed, token,
                  client_constructed, calls, returned_calls, toolVars,
                  codecVars >>

\* input raises EOFError: the standard input is closed
ConfirmEOF ==
  /\ ipc = "confirm"
  /\ asked' = TRUE
  /\ ipc' = "crashed"
  /\ exit_status' = << 1 >>
  /\ UNCHANGED << issueInputs, args, prs_to_create, listed, token,
                  client_constructed, response, idx, calls, created, failed,
                  returned_calls, printed, toolVars, codecVars >>

\* an iteration that stays on the same record after a failed call
CreateIssueRetry ==
  /\ ipc = "loop"
  /\ idx <= Len(prs_to_create)
  /\ calls' = Append(calls, Iterate(prs_to_create, idx).number)
  /\ \E ok \in BOOLEAN :
       IF ok
       THEN /\ printed' = printed \cup {"created"}
            /\ created' = created + 1
            /\ returned_calls' = returned_calls + 1
            /\ idx' = idx + 1
            /\ failed' = failed
       ELSE /\ printed' = printed \cup {"failed"}
            /\ failed' = failed + 1
            /\ UNCHANGED << created, returned_calls, idx >>
  /\ UNCHANGED << issueInputs, ipc, args, prs_to_create, listed, token,
                  client_constructed, asked, response, exit_status, toolVars,
                  codecVars >>

\* an iteration whose failed call leaves main
CreateIssueUncaught ==
  /\ ipc = "loop"
  /\ idx <= Len(prs_to_create)
  /\ calls' = Append(calls, Iterate(prs_to_create, idx).number)
  /\ idx' = idx + 1
  /\ \E ok \in BOOLEAN :
       IF ok
       THEN /\ printed' = printed \cup {"created"}
            /\ created' = created + 1
            /\ returned_calls' = returned_calls + 1
            /\ UNCHANGED << failed, ipc, exit_status >>
       ELSE /\ ipc' = "crashed"
            /\ exit_status' = << 1 >>
            /\ UNCHANGED << created, returned_calls, failed, printed >>
  /\ UNCHANGED << issueInputs, args, prs_to_create, listed, token,
                  client_constructed, asked, response, toolVars, codecVars >>

\* one iteration of the for loop: create_issue returns or raises an Exception
CreateIssue ==
  /\ ipc = "loop"
  /\ idx <= Len(prs_to_create)
  /\ calls' = Append(calls, Iterate(prs_to_create, idx).number)
  /\ idx' = idx + 1
  /\ \E ok \in BOOLEAN :
       IF ok
       THEN /\ printed' = printed \cup {"created"}
            /\ created' = created + 1
            /\ returned_calls' = returned_calls + 1
            /\ failed' = failed
       ELSE /\ printed' = printed \cup {"failed"}
            /\ failed' = failed + 1
            /\ UNCHANGED << created, returned_calls >>
  /\ UNCHANGED << issueInputs, ipc, args, prs_to_create, listed, token,
                  client_constructed, asked, response, exit_status, toolVars,
                  codecVars >>

\* the loop is exhausted: the summary, and main returns
Summary ==
  /\ ipc = "loop"
  /\ idx > Len(prs_to_create)
  /\ printed' = printed \cup {"summary"} \cup IF failed > 0 THEN {"failed_summary"} ELSE {}
  /\ ipc' = "returned"
  /\ UNCHANGED << issueInputs, args, prs_to_create, listed, token,
                  client_constructed, asked, response, idx, calls, created,
                  failed, returned_calls, exit_status, toolVars, codecVars >>

NextIssues ==
  \/ ParseArgs \/ SelectPRs \/ DryRunList \/ DryRunReturn \/ GetToken
  \/ InitClient \/ Confirm \/ ConfirmEOF \/ CreateIssue \/ Summary

SpecIssues == InitIssues /\ [][NextIssues]_vars

(***************************************************************************)
(* Properties.                                                              *)
(***************************************************************************)
\* the bytes recvfrom returned for the i-th datagram received
Received(i) == Truncate(delivered[i].data, RecvBufSize)

\* the handling of the i-th datagram received is over
Handled(i) == i < Len(delivered) \/ lpc # "handle"

\* d is UTF-8 text that is a JSON document
IsUtf8Json(d) == Utf8Decode(d).ok /\ json_loads(Utf8Decode(d).str).ok

\* msg carries the node-type tag: "cortex": true
HasNodeTypeTag(msg) ==
  /\ msg.t = "dict"
  /\ Chars(<< "c", "o", "r", "t", "e", "x" >>) \in DictKeys(msg.v)
  /\ DictGet(msg.v, Chars(<< "c", "o", "r", "t", "e", "x" >>)) = JBool(TRUE)

\* C1: every received datagram that is not valid UTF-8 JSON, once handled
\* (and unless a keyboard interrupt cut the handling short), has been reported
\* as a raw observation with its bytes and its sender, and no decoding error
\* has left main.
C1_NonJsonReportedRaw ==
  \A i \in 1..Len(delivered) :
    (~IsUtf8Json(Received(i)) /\ Handled(i) /\ ~interrupted) =>
      /\ i <= Len(events)
      /\ events[i] = RawEvent(kind, delivered[i].src, Received(i))
      /\ lexc # "UnicodeDecodeError"

\* C2: an OSError raised by recvfrom after a successful bind does not end the
\* listener: main has not been left by the exception.
C2_RecvErrorsAreSoft ==
  recvErrors > 0 => ~(lpc = "crashed" /\ lexc = "OSError")

\* C3: when bind has failed, no recvfrom has been called, nothing has been
\* received or reported, and the listener is not in its receive loop.
C3_BindFailureBeforeReceive ==
  bindFailed =>
    /\ recvCalls = 0
    /\ delivered = << >>
    /\ events = << >>
    /\ lpc \in {"returned", "crashed"}

C3_Witness == bindFailed /\ lpc = "returned" /\ kind = "broadcast"

\* C4: once an external cancellation has been signalled, the listener reports
\* no further datagram.
C4_NoReportAfterCancel == [][cancelled => events' = events]_vars

\* C5: the i-th report is the report of the i-th datagram received; every
\* datagram received from node "A" is reported as a decoded announcement whose
\* payload is the payload "A" encoded in that datagram; and between two
\* receives the decoded reports from "A" are as many as the datagrams
\* received from "A".
C5_AnnouncementsReported ==
  /\ Len(events) <= Len(delivered)
  /\ \A i \in 1..Len(events) :
       delivered[i].src = NodeAAddr =>
         \E p \in asent :
           /\ delivered[i].data = Utf8Encode(json_dumps(p))
           /\ events[i] = DecodedEvent(kind, NodeAAddr, p)
  /\ lpc = "recv" =>
       Cardinality({i \in 1..Len(events) :
                      /\ events[i].kind = "decoded"
                      /\ events[i].from = ShownAddr(kind, NodeAAddr)})
         = Cardinality({i \in 1..Len(delivered) : delivered[i].src = NodeAAddr})

\* two different announcements of "A" received and reported
C5_Witness ==
  /\ lpc = "recv"
  /\ Len(events) = 2
  /\ delivered[1].src = NodeAAddr
  /\ delivered[2].src = NodeAAddr
  /\ events[1].msg # events[2].msg

\* C6: every datagram reported as a decoded announcement carries the
\* node-type tag.
C6_UntaggedIgnored ==
  \A i \in 1..Len(events) :
    events[i].kind = "decoded" => HasNodeTypeTag(events[i].msg)

\* C7: every received datagram longer than the receive buffer, once handled
\* (and unless a keyboard interrupt cut the handling short), has been reported
\* as a raw observation, and no decoding error has left main.
C7_TruncatedReportedRaw ==
  \A i \in 1..Len(delivered) :
    (Len(delivered[i].data) > RecvBufSize /\ Handled(i) /\ ~interrupted) =>
      /\ i <= Len(events)
      /\ events[i].kind = "raw"
      /\ lexc # "UnicodeDecodeError"

\* C8: a bound socket has SO_REUSEADDR set, a socket that has joined a group
\* is bound, and the listener is in its receive loop (or has called recvfrom)
\* only with its socket bound and, for the discovery listener, joined to the
\* group.
C8_SetupOrder ==
  /\ bound => << "SO_REUSEADDR", 1 >> \in lopts
  /\ joined # {} => bound
  /\ (InLoop \/ recvCalls > 0) =>
       /\ bound
       /\ kind = "discovery" => MCAST_GRP \in joined

C8_Witness == kind = "discovery" /\ recvCalls > 0 /\ Len(events) > 0

\* C9: every datagram the sender has transmitted went out with the multicast
\* TTL option set to 2, and the sender reaches its sendto only with the
\* option set.
C9_TtlSetBeforeSend ==
  /\ \A i \in 1..Len(ssent) : ssent[i].ttl = MCAST_TTL
  /\ (spc \in {"sendto", "done"} \/ ssent # << >>) =>
       << "IP_MULTICAST_TTL", MCAST_TTL >> \in sopts

C9_Witness == spc = "done" /\ Len(ssent) = 1

\* the datagram of the end-to-end scenario
ScenarioDatagram ==
  Datagram(Chars(<< "{", "\"", "c", "o", "r", "t", "e", "x", "\"", ":", " ", "t", "r", "u", "e", ",", " ", "\"", "n", "o", "d", "e", "_", "i", "d", "\"", ":", " ", "\"", "T", "E", "S", "T", "_", "S", "E", "N", "D", "E", "R", "\"", ",", " ", "\"", "t", "y", "p", "e", "\"", ":", " ", "\"", "d", "i", "s", "c", "o", "v", "e", "r", "y", "\"", ",", " ", "\"", "a", "g", "e", "n", "t", "s", "\"", ":", " ", "1", "}" >>),
           SenderAddr, << "239.255.70.77", 7077 >>, 2)

\* C10: the sender never transmits more than one datagram; when it is done it
\* has transmitted exactly the scenario's datagram; and a discovery listener
\* that has received this datagram and nothing else has, once it is back at
\* its receive, made exactly one report: a decoded one, from the sender, with
\* node_id "TEST_SENDER" and agents 1.
C10_EndToEnd ==
  /\ Len(ssent) <= 1
  /\ spc = "done" => ssent = << ScenarioDatagram >>
  /\ (kind = "discovery" /\ delivered = << ScenarioDatagram >> /\ lpc = "recv") =>
       /\ Len(events) = 1
       /\ events[1].kind = "decoded"
       /\ events[1].from = SenderAddr
       /\ events[1].msg.t = "dict"
       /\ Chars(<< "n", "o", "d", "e", "_", "i", "d" >>) \in DictKeys(events[1].msg.v)
       /\ DictGet(events[1].msg.v, Chars(<< "n", "o", "d", "e", "_", "i", "d" >>)) = JStr(Chars(<< "T", "E", "S", "T", "_", "S", "E", "N", "D", "E", "R" >>))
       /\ Chars(<< "a", "g", "e", "n", "t", "s" >>) \in DictKeys(events[1].msg.v)
       /\ DictGet(events[1].msg.v, Chars(<< "a", "g", "e", "n", "t", "s" >>)) = JInt(1)

C10_Witness ==
  /\ kind = "discovery"
  /\ spc = "done"
  /\ delivered = << ScenarioDatagram >>
  /\ lpc = "recv"
  /\ Len(events) = 1

\* C11: every valid announcement payload P (string node_id, string type,
\* integer agents, optional boolean or string metadata) survives the round
\* trip: Decode(Encode(P)) is P.
C11_RoundTrip ==
  rt_pc = "decoded" => rt_result.ok /\ rt_result.val = rt_payload

\* a payload whose node_id holds a quote, a backslash or a character outside
\* ASCII has made the round trip
C11_Witness ==
  /\ rt_pc = "decoded"
  /\ rt_result.ok
  /\ \E kv \in {rt_payload.v[1]} :
       /\ Len(kv[2].v) = MaxStrLen
       /\ \E i \in 1..Len(kv[2].v) : kv[2].v[i] \in {34, 92, 233, 8364, 128512}
  /\ Len(rt_payload.v) = 4

\* C12: a failed send is reported and does not stop the announcer: the
\* sending script is never ended by the error of a send, it stays able to
\* perform the next send.
C12_SendErrorContained == spc # "crashed"

\* the numbers of the PRs a run with the parsed arguments a selects: all of
\* PRS, or those listed for the phase, in the order of PRS
SelectedNumbers(a) ==
  LET listed_for_phase(n) == n \in Range(phase_prs[a.phase[1]])
  IN IF a.phase = << >> THEN Numbers(PRS) ELSE SelectSeq(Numbers(PRS), listed_for_phase)

Parsed == ipc \notin {"idle", "parse_args"} /\ exit_status # << 2 >>

\* C13: in every execution with --dry-run, with or without --phase and
\* whether or not GITHUB_TOKEN is set, no GitHub client is constructed, no
\* confirmation is asked, create_issue is never called, and main returns
\* normally after listing exactly the selected PRs.
C13_DryRunCreatesNothing ==
  (Parsed /\ args.dry_run) =>
    /\ ~client_constructed
    /\ ~asked
    /\ calls = << >>
    /\ ipc \in {"select", "dry_run", "returned"}
    /\ exit_status = << >>
    /\ token = << >>
    /\ ipc = "returned" => listed = SelectedNumbers(args)

\* a dry run of a phase, with the token set, has returned after its listing
C13_Witness ==
  /\ Parsed /\ args.dry_run /\ ipc = "returned"
  /\ args.phase # << >>
  /\ TokenSet(environ)
  /\ listed # << >>

\* C14: create_issue is called at most once per selected PR record, the
\* calls are made in the order of the records in PRS, and a record whose
\* call failed is never attempted again.
C14_SequentialNoRetry ==
  Parsed =>
    /\ Len(calls) <= Len(SelectedNumbers(args))
    /\ calls = SubSeq(SelectedNumbers(args), 1, Len(calls))
    /\ \A i, j \in DOMAIN calls : i # j => calls[i] # calls[j]

\* a run in which calls failed has gone through all its records
C14_Witness ==
  /\ ipc = "returned" /\ ~args.dry_run
  /\ failed > 1
  /\ Len(calls) = Len(prs_to_create)

\* C15: a failed create_issue call does not stop the run: every selected PR
\* is attempted exactly once, after each iteration created + failed is the
\* number of PRs attempted so far, at the end created + failed is
\* len(prs_to_create), and created is the number of calls that returned.
C15_FailureContained ==
  /\ created + failed = Len(calls)
  /\ created = returned_calls
  /\ ipc = "loop" => Len(calls) = idx - 1
  /\ failed > 0 => ipc \in {"loop", "returned"}
  /\ (Parsed /\ ~args.dry_run /\ ipc = "returned") =>
       /\ created + failed = Len(prs_to_create)
       /\ calls = Numbers(prs_to_create)

\* a full run has ended with both created and failed issues
C15_Witness ==
  /\ ipc = "returned" /\ ~args.dry_run
  /\ created > 0 /\ failed > 0
  /\ calls = Numbers(PRS)

Ended == ipc \in {"returned", "exited", "crashed"}

\* C16: create_issue is called only when GITHUB_TOKEN is non-empty, the
\* client was imported, the repository lookup succeeded and the answer was
\* y or Y; a missing token, a missing library (whose exit the handler of
\* connection errors does not swallow) and a connection error end the run
\* with status 1, any other answer with status 0, all without a call.
C16_Preconditions ==
  /\ calls # << >> =>
       /\ TokenSet(environ)
       /\ pygithub_installed
       /\ "repository" \in printed
       /\ response \in {<< << 121 >> >>, << << 89 >> >>}
  /\ (Parsed /\ ~args.dry_run /\ Ended) =>
       /\ ~TokenSet(environ) => exit_status = << 1 >> /\ calls = << >>
       /\ (TokenSet(environ) /\ ~pygithub_installed) =>
            /\ exit_status = << 1 >>
            /\ calls = << >>
            /\ "connect_error" \notin printed
       /\ "connect_error" \in printed => exit_status = << 1 >> /\ calls = << >>
  /\ (response # << >> /\ response \notin {<< << 121 >> >>, << << 89 >> >>}) =>
       /\ ipc = "exited"
       /\ exit_status = << 0 >>
       /\ calls = << >>

\* a run with the token set and the library missing has exited
C16_Witness ==
  /\ Parsed /\ ~args.dry_run /\ Ended
  /\ TokenSet(environ) /\ ~pygithub_installed
  /\ exit_status = << 1 >>

\* the dependencies of the PR of PRS with the number n
DependenciesOf(n) ==
  LET i == CHOOSE k \in DOMAIN PRS : PRS[k].number = n
  IN Range(PRS[i].dependencies)

\* C17: in a full run (no --phase) the issue of a PR is attempted only
\* after the issues of all its dependencies: every number in a PR's
\* dependencies is the number of a PR that appears earlier in PRS.
C17_DependenciesFirst ==
  /\ \A i \in DOMAIN PRS : \A d \in Range(PRS[i].dependencies) :
       \E k \in 1..(i - 1) : PRS[k].number = d
  /\ (Parsed /\ args.phase = << >>) =>
       \A j \in DOMAIN calls : \A d \in DependenciesOf(calls[j]) :
         \E k \in 1..(j - 1) : calls[k] = d

\* a full run has attempted every PR, the one that depends on 29 others too
C17_Witness ==
  /\ Parsed /\ args.phase = << >> /\ ~args.dry_run
  /\ ipc = "returned"
  /\ Len(calls) = Len(PRS)
  /\ \E j \in DOMAIN calls : Cardinality(DependenciesOf(calls[j])) > 3

\* the place of the number n in PRS
PositionOf(n) == CHOOSE k \in DOMAIN PRS : PRS[k].number = n

\* C18: with --phase k the PRs attempted are exactly the PRs of PRS whose
\* number is listed for phase k, in the order of PRS; the phases 1..8
\* together list every PR of PRS, and no phase lists a number that PRS does
\* not define.
C18_PhaseSelection ==
  /\ \A k \in DOMAIN phase_prs : Range(phase_prs[k]) \subseteq Range(Numbers(PRS))
  /\ Range(Numbers(PRS)) \subseteq UNION {Range(phase_prs[k]) : k \in DOMAIN phase_prs}
  /\ DOMAIN phase_prs = PhaseChoices
  /\ (Parsed /\ args.phase # << >> /\ ~args.dry_run) =>
       /\ Range(calls) \subseteq Range(phase_prs[args.phase[1]])
       /\ \A i, j \in DOMAIN calls : i < j => PositionOf(calls[i]) < PositionOf(calls[j])
       /\ ipc = "returned" => Range(calls) = Range(phase_prs[args.phase[1]])

\* a run of phase 1, whose numbers are not contiguous, has ended
C18_Witness ==
  /\ Parsed /\ args.phase = << 1 >> /\ ~args.dry_run
  /\ ipc = "returned"
  /\ Len(calls) = Len(phase_prs[1])

====
